---- MODULE Spec2Model ----
(***************************************************************************)
(* Model of the Telegram target-tracker bot (src/main.py): the members     *)
(* table, the member operations on it, the chat handlers and the three     *)
(* scheduled jobs.                                                         *)
(*                                                                         *)
(* The column last_updated is written by every statement and read by none; *)
(* it is not part of the model.  The columns points, streak and            *)
(* target_count are never written with NULL (DEFAULT 0 on insert), so the  *)
(* "or 0" of the readers is the identity on every row the program makes.   *)
(***************************************************************************)
EXTENDS Integers, Sequences, FiniteSets, TLC

\* ---------------------------------------------------------------- bounds
MaxDay == 3

\* chat events handled in one run
MaxEvents == 3

Users == {1, 2}

\* names a Telegram user can carry (user.username or user.first_name)
NamesOf(u) == IF u = 1 THEN {"ann", "anna"} ELSE {"bob"}

\* minutes of the day at which something is observed: the cron minutes of
\* the three jobs, both ends of both photo windows and a minute just
\* outside each end
Times == <<0, 299, 300, 540, 541, 1259, 1260, 1290, 1380, 1381>>

\* ------------------------------------------------------- program constants
morning_start == 300
morning_end == 540
night_start == 1260
night_end == 1380
reminder_minute == 1290
nightly_minute == 1381
reset_minute == 0
completion_points == 10
streak_bonus == 5
missed_deduction == 5

\* last_completed_date IS NULL
NullDate == 0

\* -------------------------------------------------------------- captions
\* a caption is a sequence of characters; NoCaption is message.caption = None
NoCaption == <<>>

Captions ==
  << <<"T", "O", "D", "A", "Y", " ", "T", "A", "R", "G", "E", "T", " ", "C", "O", "M", "P", "L", "E", "T", "E">>,
     <<"m", "y", " ", "t", "a", "r", "g", "e", "t", " ", "c", "o", "m", "p", "l", "e", "t", "e", "d">>,
     <<"t", "a", "r", "g", "e", "t", " ", "c", "o", "m", "p", "l", "e", "t", "e">> >>

Phrase1 == <<"t", "o", "d", "a", "y", " ", "t", "a", "r", "g", "e", "t", " ", "c", "o", "m", "p", "l", "e", "t", "e", "d">>
Phrase2 == <<"t", "o", "d", "a", "y", " ", "t", "a", "r", "g", "e", "t", " ", "c", "o", "m", "p", "l", "e", "t", "e">>
Phrase3 == <<"t", "a", "r", "g", "e", "t", " ", "c", "o", "m", "p", "l", "e", "t", "e", "d">>

UpperToLower ==
  "A" :> "a" @@ "C" :> "c" @@ "D" :> "d" @@ "E" :> "e" @@ "G" :> "g" @@ "L" :> "l" @@
  "M" :> "m" @@ "O" :> "o" @@ "P" :> "p" @@ "R" :> "r" @@ "T" :> "t" @@ "Y" :> "y"

\* the caption compared as it was typed
Lower_Identity(s) == s

\* str.lower()
Lower(s) == [i \in 1..Len(s) |-> IF s[i] \in DOMAIN UpperToLower THEN UpperToLower[s[i]] ELSE s[i]]

\* sub in s
Contains(s, sub) ==
  \E i \in 1..(Len(s) - Len(sub) + 1) : SubSeq(s, i, i + Len(sub) - 1) = sub

\* caption index 0 is a photo without caption
CaptionText(c) == IF c = 0 THEN NoCaption ELSE Captions[c]

CaptionMatches(c) ==
  LET caption == Lower(CaptionText(c))
  IN Contains(caption, Phrase1) \/ Contains(caption, Phrase2) \/ Contains(caption, Phrase3)

\* ----------------------------------------------------------------- state
VARIABLES
  members,    \* the members table: user_id -> row, for the rows that exist
  today,      \* the civil date in IST, as a day number
  now,        \* the civil time in IST, minutes since midnight
  fired,      \* the cron job of this minute has been triggered
  jobpc,      \* nightly_process_job: "idle", or "sleep" between sweep and leaderboard
  ev,         \* the last event handled and its inputs
  ret,        \* what the last store read or sweep returned to its caller
  nev,        \* number of chat events handled so far
  dayPts,     \* per user: sum of the point increases of the current day
  dayTc,      \* per user: sum of the target_count increases of the current day
  dayCalls,   \* per user: number of mark_completed calls of the current day
  doneDays,   \* per user: the days on which a completion was recorded
  scen,       \* per user: progress of start, morning photo, done on one day
  sweepOld,   \* between sweep and leaderboard: the points before the sweep of the
              \* members it deducted from and no chat event has come from since
  cops,       \* two concurrent store operations: which operation each one is
  cpc,        \* two concurrent store operations: the statement each one is at
  cread,      \* two concurrent store operations: what the SELECT of each returned
  cstart      \* two concurrent store operations: the table they started on

\* the state of the run of two concurrent store operations (SpecConc)
cvars == <<cops, cpc, cread, cstart>>

vars == <<members, today, now, fired, jobpc, ev, ret, nev, dayPts, dayTc, dayCalls, doneDays, scen,
          sweepOld, cvars>>

NoRet == [list |-> <<>>, n |-> 0]

\* every order in which a SELECT without ORDER BY can hand back the rows
Orders(S) == {s \in [1..Cardinality(S) -> S] : \A i, j \in 1..Cardinality(S) : s[i] = s[j] => i = j}

Max(a, b) == IF a >= b THEN a ELSE b

\* ------------------------------------------------------ member operations
\* INSERT ... VALUES (uid, username, 'Pending', NOW()) with the column defaults
NewRow(n) ==
  [username |-> n, status |-> "Pending", target_count |-> 0, points |-> 0,
   streak |-> 0, lcd |-> NullDate]

\* add_member replacing the row on conflict
add_member_Replace(tbl, u, n) ==
  IF u \in DOMAIN tbl
    THEN [tbl EXCEPT ![u] = NewRow(n)]
    ELSE (u :> NewRow(n)) @@ tbl

\* add_member with ON CONFLICT also setting submission_status = 'Pending'
add_member_ResetStatus(tbl, u, n) ==
  IF u \in DOMAIN tbl
    THEN [tbl EXCEPT ![u].username = n, ![u].status = "Pending"]
    ELSE (u :> NewRow(n)) @@ tbl

add_member(tbl, u, n) ==
  IF u \in DOMAIN tbl
    THEN [tbl EXCEPT ![u].username = n]
    ELSE (u :> NewRow(n)) @@ tbl

update_submission_status(tbl, u, s) ==
  IF u \in DOMAIN tbl THEN [tbl EXCEPT ![u].status = s] ELSE tbl

\* the row mark_completed inserts when the SELECT finds none
CompletedRow(d) ==
  [username |-> "Unknown", status |-> "Completed", target_count |-> 1,
   points |-> completion_points, streak |-> 1, lcd |-> d]

\* the UPDATE of mark_completed that takes any earlier completion for yesterday's
AwardUpdate_AnyEarlier(cur, read, d) ==
  LET consecutive == read.lcd # NullDate
      bonus == IF consecutive THEN streak_bonus ELSE 0
      new_streak == IF consecutive THEN read.streak + 1 ELSE 1
  IN [cur EXCEPT !.status = "Completed",
                 !.target_count = cur.target_count + 1,
                 !.points = read.points + completion_points + bonus,
                 !.streak = new_streak,
                 !.lcd = d]

\* the UPDATE of mark_completed with the streak bonus on every completion
AwardUpdate_AlwaysBonus(cur, read, d) ==
  LET consecutive == read.lcd # NullDate /\ read.lcd = d - 1
      new_streak == IF consecutive THEN read.streak + 1 ELSE 1
  IN [cur EXCEPT !.status = "Completed",
                 !.target_count = cur.target_count + 1,
                 !.points = read.points + completion_points + streak_bonus,
                 !.streak = new_streak,
                 !.lcd = d]

\* the UPDATE of mark_completed without target_count = target_count + 1
AwardUpdate_NoCount(cur, read, d) ==
  LET consecutive == read.lcd # NullDate /\ read.lcd = d - 1
      bonus == IF consecutive THEN streak_bonus ELSE 0
      new_streak == IF consecutive THEN read.streak + 1 ELSE 1
  IN [cur EXCEPT !.status = "Completed",
                 !.points = read.points + completion_points + bonus,
                 !.streak = new_streak,
                 !.lcd = d]

\* the UPDATE of mark_completed, computed from the row the SELECT returned
AwardUpdate(cur, read, d) ==
  LET consecutive == read.lcd # NullDate /\ read.lcd = d - 1
      bonus == IF consecutive THEN streak_bonus ELSE 0
      new_streak == IF consecutive THEN read.streak + 1 ELSE 1
  IN [cur EXCEPT !.status = "Completed",
                 !.target_count = cur.target_count + 1,
                 !.points = read.points + completion_points + bonus,
                 !.streak = new_streak,
                 !.lcd = d]

\* mark_completed without the guard against a second award on the same day
mark_completed_NoGuard(tbl, u, d) ==
  IF u \notin DOMAIN tbl
    THEN (u :> CompletedRow(d)) @@ tbl
    ELSE [tbl EXCEPT ![u] = AwardUpdate(tbl[u], tbl[u], d)]

\* mark_completed with the guard on the status column instead of the date
mark_completed_GuardStatus(tbl, u, d) ==
  IF u \notin DOMAIN tbl
    THEN (u :> CompletedRow(d)) @@ tbl
    ELSE IF tbl[u].status = "Completed"
      THEN tbl
      ELSE [tbl EXCEPT ![u] = AwardUpdate(tbl[u], tbl[u], d)]

mark_completed(tbl, u, d) ==
  IF u \notin DOMAIN tbl
    THEN (u :> CompletedRow(d)) @@ tbl
    ELSE IF tbl[u].lcd = d
      THEN [tbl EXCEPT ![u].status = "Completed"]
      ELSE [tbl EXCEPT ![u] = AwardUpdate(tbl[u], tbl[u], d)]

\* the deduction without its floor
MissedUpdate_NoFloor(cur, pts) ==
  [cur EXCEPT !.points = pts - missed_deduction, !.streak = 0, !.status = "Missed"]

\* the UPDATE of apply_missed_deductions_and_reset for one row
MissedUpdate(cur, pts) ==
  [cur EXCEPT !.points = Max(0, pts - missed_deduction), !.streak = 0, !.status = "Missed"]

\* the sweep deciding by the status column instead of last_completed_date
SweepRow_ByStatus(r, d) == IF r.status = "Completed" THEN r ELSE MissedUpdate(r, r.points)

SweepRow(r, d) == IF r.lcd = d THEN r ELSE MissedUpdate(r, r.points)

\* the table after the loop and the commit
SweepTable(tbl, d) == [u \in DOMAIN tbl |-> SweepRow(tbl[u], d)]

\* missed, in the order ord in which the rows were fetched
RECURSIVE SweepMissed(_, _, _)
SweepMissed(tbl, d, ord) ==
  IF ord = <<>> THEN <<>>
  ELSE LET r == tbl[Head(ord)]
       IN (IF r.lcd = d THEN <<>> ELSE <<r.username>>) \o SweepMissed(tbl, d, Tail(ord))

\* the sweep returning what it computed without the commit
apply_missed_deductions_and_reset_NoCommit(tbl, d, ord, k) ==
  LET missed == SweepMissed(tbl, d, ord)
  IN IF k = 0
       THEN [tbl |-> tbl, missed |-> missed, updated |-> Len(missed)]
       ELSE [tbl |-> tbl, missed |-> <<>>, updated |-> 0]

\* k = 0: every statement succeeds and the loop is committed; k > 0: a
\* statement for the k-th fetched row raises, the except clause returns
\* ([], 0) and the connection is closed without a commit, which discards the
\* updates of the rows before it
apply_missed_deductions_and_reset(tbl, d, ord, k) ==
  LET missed == SweepMissed(tbl, d, ord)
  IN IF k = 0
       THEN [tbl |-> SweepTable(tbl, d), missed |-> missed, updated |-> Len(missed)]
       ELSE [tbl |-> tbl, missed |-> <<>>, updated |-> 0]

\* the reset clearing the streak with the status
ResetTable_ClearStreak(tbl) ==
  [u \in DOMAIN tbl |-> [tbl[u] EXCEPT !.status = "Pending", !.streak = 0]]

ResetTable(tbl) == [u \in DOMAIN tbl |-> [tbl[u] EXCEPT !.status = "Pending"]]

\* the sort key of get_all_members compared as Python compares tuples
KeyLess(a, b) == a.points < b.points \/ (a.points = b.points /\ a.streak < b.streak)

\* sorted(rows, key=..., reverse=True): descending and stable, rows with
\* equal keys keep the order in which they were fetched
RECURSIVE InsertSorted(_, _)
InsertSorted(s, r) ==
  IF s = <<>> THEN <<r>>
  ELSE IF KeyLess(Head(s), r) THEN <<r>> \o s
  ELSE <<Head(s)>> \o InsertSorted(Tail(s), r)

RECURSIVE SortedRows(_)
SortedRows(rows) ==
  IF rows = <<>> THEN <<>>
  ELSE InsertSorted(SortedRows(SubSeq(rows, 1, Len(rows) - 1)), rows[Len(rows)])

FetchRow(tbl, u) == [user_id |-> u] @@ tbl[u]

get_all_members(tbl, ord) == SortedRows([i \in 1..Len(ord) |-> FetchRow(tbl, ord[i])])

\* ------------------------------------------------------------- observers
\* bookkeeping on the table change of one step, for the current day;
\* called is the set of users for whom the step ran mark_completed
Observe(old, new, d, newDay, called) ==
  /\ dayCalls' = [u \in Users |->
       (IF newDay THEN 0 ELSE dayCalls[u]) + (IF u \in called THEN 1 ELSE 0)]
  /\ dayPts' = [u \in Users |->
       (IF newDay THEN 0 ELSE dayPts[u])
       + (IF u \in DOMAIN new
            THEN Max(0, new[u].points - (IF u \in DOMAIN old THEN old[u].points ELSE 0))
            ELSE 0)]
  /\ dayTc' = [u \in Users |->
       (IF newDay THEN 0 ELSE dayTc[u])
       + (IF u \in DOMAIN new
            THEN Max(0, new[u].target_count - (IF u \in DOMAIN old THEN old[u].target_count ELSE 0))
            ELSE 0)]
  /\ doneDays' = [u \in Users |->
       doneDays[u] \cup
         (IF u \in DOMAIN new /\ new[u].lcd = d
             /\ (u \notin DOMAIN old \/ old[u].lcd # d)
           THEN {d} ELSE {})]

\* progress of user who through the sequence "a start event creates the row
\* (1), then a morning photo (2), then a done-command (3)" on one day; any
\* other chat event of that user, and midnight, set it back to 0
Scenario(who, kind) ==
  scen' = [u \in Users |->
    IF u # who THEN scen[u]
    ELSE IF kind = "start" /\ u \notin DOMAIN members THEN 1
    ELSE IF kind = "morning" /\ scen[u] = 1 THEN 2
    ELSE IF kind = "done" /\ scen[u] = 2 THEN 3
    ELSE 0]

\* a chat event of user who reached the store
Touch(who) ==
  sweepOld' = [u \in DOMAIN sweepOld \ {who} |-> sweepOld[u]]

Event(op, u, n, c, grp, ok1, ok2) ==
  [op |-> op, uid |-> u, uname |-> n, cap |-> c, group |-> grp, ok1 |-> ok1, ok2 |-> ok2]

\* the morning window without its end points
is_morning_Exclusive(t) == morning_start < t /\ t < morning_end

is_morning(t) == morning_start <= t /\ t <= morning_end
is_night(t) == night_start <= t /\ t <= night_end

\* ------------------------------------------------------------------ Init
Init ==
  /\ members = <<>>
  /\ today = 1
  /\ now = Times[1]
  /\ fired = FALSE
  /\ jobpc = "idle"
  /\ ev = Event("init", 0, "", 0, FALSE, FALSE, FALSE)
  /\ ret = NoRet
  /\ nev = 0
  /\ dayPts = [u \in Users |-> 0]
  /\ dayTc = [u \in Users |-> 0]
  /\ dayCalls = [u \in Users |-> 0]
  /\ doneDays = [u \in Users |-> {}]
  /\ scen = [u \in Users |-> 0]
  /\ sweepOld = <<>>
  /\ cops = <<>>
  /\ cpc = <<>>
  /\ cread = <<>>
  /\ cstart = <<>>

\* ---------------------------------------------------------- chat handlers
\* ok1, ok2: whether the first / second store call of the handler gets its
\* connection and commits; a call that fails returns False and leaves the
\* table as it was. ret.list holds what the store calls returned to the
\* handler. In a job ok2 tells whether its send_message was delivered.
start_command(u, n, ok1) ==
  /\ nev < MaxEvents
  /\ nev' = nev + 1
  /\ members' = IF ok1 THEN add_member(members, u, n) ELSE members
  /\ ev' = Event("start", u, n, 0, FALSE, ok1, FALSE)
  /\ Scenario(u, IF ok1 THEN "start" ELSE "other")
  /\ Touch(u)
  /\ ret' = [list |-> <<ok1>>, n |-> 0]
  /\ Observe(members, members', today, FALSE, {})
  /\ UNCHANGED <<cvars, today, now, fired, jobpc>>

status_command(ord, ok1) ==
  /\ nev < MaxEvents
  /\ nev' = nev + 1
  /\ ev' = Event("status", 0, "", 0, FALSE, ok1, FALSE)
  /\ ret' = IF ok1 THEN [list |-> get_all_members(members, ord), n |-> 0] ELSE NoRet
  /\ UNCHANGED <<cvars, sweepOld, members, today, now, fired, jobpc, dayPts, dayTc, dayCalls, doneDays, scen>>

\* the done-command awarding in the night window only
done_command_NightOnly(u, n, ok1, ok2) ==
  /\ nev < MaxEvents
  /\ nev' = nev + 1
  /\ LET ensured == IF ok1 THEN add_member(members, u, n) ELSE members
     IN members' = IF ok2 /\ is_night(now) THEN mark_completed(ensured, u, today) ELSE ensured
  /\ ev' = Event("done", u, n, 0, FALSE, ok1, ok2)
  /\ Scenario(u, IF ok1 /\ ok2 THEN "done" ELSE "other")
  /\ Touch(u)
  /\ ret' = [list |-> <<ok1, ok2>>, n |-> 0]
  /\ Observe(members, members', today, FALSE, IF ok2 THEN {u} ELSE {})
  /\ UNCHANGED <<cvars, today, now, fired, jobpc>>

done_command(u, n, ok1, ok2) ==
  /\ nev < MaxEvents
  /\ nev' = nev + 1
  /\ LET ensured == IF ok1 THEN add_member(members, u, n) ELSE members
     IN members' = IF ok2 THEN mark_completed(ensured, u, today) ELSE ensured
  /\ ev' = Event("done", u, n, 0, FALSE, ok1, ok2)
  /\ Scenario(u, IF ok1 /\ ok2 THEN "done" ELSE "other")
  /\ Touch(u)
  /\ ret' = [list |-> <<ok1, ok2>>, n |-> 0]
  /\ Observe(members, members', today, FALSE, IF ok2 THEN {u} ELSE {})
  /\ UNCHANGED <<cvars, today, now, fired, jobpc>>

\* a photo outside the group chat: the handler returns at once
photo_elsewhere(u, n) ==
  /\ nev < MaxEvents
  /\ nev' = nev + 1
  /\ ev' = Event("photo", u, n, 0, FALSE, FALSE, FALSE)
  /\ Scenario(u, "other")
  /\ ret' = NoRet
  /\ UNCHANGED <<cvars, sweepOld, members, today, now, fired, jobpc, dayPts, dayTc, dayCalls, doneDays>>

\* a photo in the group chat; the caption c is read in the night window
\* only, and ok2 only where a second store call is made (morning window, or
\* night window with a matching caption): inputs the handler does not read
\* are fixed
handle_photo_message(u, n, c, ok1, ok2) ==
  /\ nev < MaxEvents
  /\ nev' = nev + 1
  /\ LET ensured == IF ok1 THEN add_member(members, u, n) ELSE members
     IN IF is_morning(now)
          THEN /\ c = 0
               /\ members' = IF ok2 THEN update_submission_status(ensured, u, "Planned")
                                    ELSE ensured
          ELSE IF is_night(now)
            THEN IF CaptionMatches(c)
                   THEN members' = IF ok2 THEN mark_completed(ensured, u, today) ELSE ensured
                   ELSE /\ ok2
                        /\ members' = ensured
            ELSE /\ c = 0 /\ ok2
                 /\ members' = ensured
  /\ ev' = Event("photo", u, n, c, TRUE, ok1, ok2)
  /\ Scenario(u, IF is_morning(now) /\ ok1 /\ ok2 THEN "morning" ELSE "other")
  /\ Touch(u)
  /\ ret' = [list |-> IF is_morning(now) \/ (is_night(now) /\ CaptionMatches(c))
                        THEN <<ok1, ok2>> ELSE <<ok1>>,
              n |-> 0]
  /\ Observe(members, members', today, FALSE,
             IF is_night(now) /\ CaptionMatches(c) /\ ok2 THEN {u} ELSE {})
  /\ UNCHANGED <<cvars, today, now, fired, jobpc>>

\* -------------------------------------------------------- scheduled jobs
evening_reminder_job(ord, ok1) ==
  /\ now = reminder_minute /\ ~fired
  /\ fired' = TRUE
  /\ ev' = Event("reminder", 0, "", 0, FALSE, ok1, FALSE)
  /\ ret' = IF ok1
              THEN [list |-> SelectSeq(get_all_members(members, ord),
                                        LAMBDA m : m.status # "Completed"),
                    n |-> 0]
              ELSE NoRet
  /\ UNCHANGED <<cvars, sweepOld, members, today, now, jobpc, nev, dayPts, dayTc, dayCalls, doneDays, scen>>

\* nightly_process_job up to its asyncio.sleep
\* ok1: the sweep gets its connection; k: the fetched row at which a
\* statement of the sweep raises (0: none); sent: the missed notice is
\* delivered. The notice is sent when the returned list is not empty, and an
\* exception of that send ends the job before the leaderboard. ev.uid is
\* the user of the row at which the sweep raised, ev.ok1 whether the sweep
\* committed.
nightly_process_job(ord, ok1, k, sent) ==
  /\ now = nightly_minute /\ ~fired
  /\ fired' = TRUE
  /\ ~ok1 => k = 0
  /\ LET res == apply_missed_deductions_and_reset(members, today, ord, k)
     IN IF ok1
          THEN /\ members' = res.tbl
               /\ ret' = [list |-> res.missed, n |-> res.updated]
               /\ res.missed = <<>> => sent
          ELSE /\ members' = members
               /\ ret' = NoRet
               /\ sent
  /\ jobpc' = IF sent THEN "sleep" ELSE "idle"
  /\ ev' = Event("sweep", IF k = 0 THEN 0 ELSE ord[k], "", 0, FALSE, ok1 /\ k = 0, sent)
  /\ sweepOld' = IF ok1 /\ k = 0 /\ sent
                   THEN [u \in {v \in DOMAIN members : members[v].lcd # today} |->
                           members[u].points]
                   ELSE <<>>
  /\ Observe(members, members', today, FALSE, {})
  /\ UNCHANGED <<cvars, scen, today, now, nev>>

\* nightly_process_job after the sleep: send_leaderboard_job
send_leaderboard_job(ord, ok1, sent) ==
  /\ jobpc = "sleep"
  /\ jobpc' = "idle"
  /\ ev' = Event("leaderboard", 0, "", 0, FALSE, ok1, sent)
  /\ ret' = IF ok1 THEN [list |-> get_all_members(members, ord), n |-> 0] ELSE NoRet
  /\ sweepOld' = <<>>
  /\ UNCHANGED <<cvars, members, today, now, fired, nev, dayPts, dayTc, dayCalls, doneDays, scen>>

\* the reset committing after the send only
reset_daily_status_job_CommitAfterSend(ok1, sent) ==
  /\ now = reset_minute /\ ~fired
  /\ fired' = TRUE
  /\ ~ok1 => sent
  /\ members' = IF ok1 /\ sent THEN ResetTable(members) ELSE members
  /\ ev' = Event("reset", 0, "", 0, FALSE, ok1, sent)
  /\ ret' = NoRet
  /\ Observe(members, members', today, FALSE, {})
  /\ UNCHANGED <<cvars, sweepOld, scen, today, now, jobpc, nev>>

\* the commit comes before the send; without a connection the job returns
\* before the send
reset_daily_status_job(ok1, sent) ==
  /\ now = reset_minute /\ ~fired
  /\ fired' = TRUE
  /\ ~ok1 => sent
  /\ members' = IF ok1 THEN ResetTable(members) ELSE members
  /\ ev' = Event("reset", 0, "", 0, FALSE, ok1, sent)
  /\ ret' = NoRet
  /\ Observe(members, members', today, FALSE, {})
  /\ UNCHANGED <<cvars, sweepOld, scen, today, now, jobpc, nev>>

\* ------------------------------------------------------------- the clock
CronMinutes == {reminder_minute, nightly_minute, reset_minute}

\* the clock reaches the next observed minute, or midnight of the next day;
\* the cron job of a minute is triggered within that minute, and the
\* leaderboard follows the sweep after one second
Tick ==
  /\ now \in CronMinutes => fired
  /\ jobpc = "idle"
  /\ \E i \in 1..Len(Times) :
       /\ Times[i] = now
       /\ IF i < Len(Times)
            THEN /\ now' = Times[i + 1]
                 /\ today' = today
            ELSE /\ today < MaxDay
                 /\ now' = Times[1]
                 /\ today' = today + 1
  /\ fired' = FALSE
  /\ ev' = Event("tick", 0, "", 0, FALSE, FALSE, FALSE)
  /\ ret' = NoRet
  /\ Observe(members, members, today', today' # today, {})
  /\ scen' = IF today' # today THEN [u \in Users |-> 0] ELSE scen
  /\ UNCHANGED <<cvars, sweepOld, members, jobpc, nev>>

\* the outcomes of a store call: the store is reachable and commits
StoreUp == {TRUE}

\* the outcomes of a send_message: the message is delivered
Delivered == {TRUE}

\* the rows at which a sweep over ord can raise under the store outcomes S
RowFail(S, ord) == IF FALSE \in S THEN 0..Len(ord) ELSE {0}

Next ==
  \/ \E u \in Users : \E n \in NamesOf(u) : \E ok1 \in StoreUp : start_command(u, n, ok1)
  \/ \E ord \in Orders(DOMAIN members) : \E ok1 \in StoreUp : status_command(ord, ok1)
  \/ \E u \in Users : \E n \in NamesOf(u) : \E ok1, ok2 \in StoreUp : done_command(u, n, ok1, ok2)
  \/ \E u \in Users : \E n \in NamesOf(u) : photo_elsewhere(u, n)
  \/ \E u \in Users : \E n \in NamesOf(u) : \E c \in 0..Len(Captions) :
       \E ok1, ok2 \in StoreUp : handle_photo_message(u, n, c, ok1, ok2)
  \/ \E ord \in Orders(DOMAIN members) : \E ok1 \in StoreUp : evening_reminder_job(ord, ok1)
  \/ \E ord \in Orders(DOMAIN members) : \E ok1 \in StoreUp :
       \E k \in RowFail(StoreUp, ord) : \E sent \in Delivered :
         nightly_process_job(ord, ok1, k, sent)
  \/ \E ord \in Orders(DOMAIN members) : \E ok1 \in StoreUp : \E sent \in Delivered :
       send_leaderboard_job(ord, ok1, sent)
  \/ \E ok1 \in StoreUp : \E sent \in Delivered : reset_daily_status_job(ok1, sent)
  \/ Tick

Spec == Init /\ [][Next]_vars

\* ------------------------------------------- store and delivery failures
\* The last day of the run with a store whose calls may fail (no
\* connection, or an exception in a statement) and a chat whose
\* send_message may raise.
StoreAny == BOOLEAN

DeliveredAny == BOOLEAN

InitFail ==
  /\ members = <<>>
  /\ today = MaxDay
  /\ now = Times[1]
  /\ fired = FALSE
  /\ jobpc = "idle"
  /\ ev = Event("init", 0, "", 0, FALSE, FALSE, FALSE)
  /\ ret = NoRet
  /\ nev = 0
  /\ dayPts = [u \in Users |-> 0]
  /\ dayTc = [u \in Users |-> 0]
  /\ dayCalls = [u \in Users |-> 0]
  /\ doneDays = [u \in Users |-> {}]
  /\ scen = [u \in Users |-> 0]
  /\ sweepOld = <<>>
  /\ cops = <<>>
  /\ cpc = <<>>
  /\ cread = <<>>
  /\ cstart = <<>>

NextFail ==
  \/ \E u \in Users : \E n \in NamesOf(u) : \E ok1 \in StoreAny : start_command(u, n, ok1)
  \/ \E ord \in Orders(DOMAIN members) : \E ok1 \in StoreAny : status_command(ord, ok1)
  \/ \E u \in Users : \E n \in NamesOf(u) : \E ok1, ok2 \in StoreAny : done_command(u, n, ok1, ok2)
  \/ \E u \in Users : \E n \in NamesOf(u) : photo_elsewhere(u, n)
  \/ \E u \in Users : \E n \in NamesOf(u) : \E c \in 0..Len(Captions) :
       \E ok1, ok2 \in StoreAny : handle_photo_message(u, n, c, ok1, ok2)
  \/ \E ord \in Orders(DOMAIN members) : \E ok1 \in StoreAny : evening_reminder_job(ord, ok1)
  \/ \E ord \in Orders(DOMAIN members) : \E ok1 \in StoreAny :
       \E k \in RowFail(StoreAny, ord) : \E sent \in DeliveredAny :
         nightly_process_job(ord, ok1, k, sent)
  \/ \E ord \in Orders(DOMAIN members) : \E ok1 \in StoreAny : \E sent \in DeliveredAny :
       send_leaderboard_job(ord, ok1, sent)
  \/ \E ok1 \in StoreAny : \E sent \in DeliveredAny : reset_daily_status_job(ok1, sent)
  \/ Tick

SpecFail == InitFail /\ [][NextFail]_vars

\* ------------------------------------------ two concurrent store operations
\* The store runs every statement on the rows committed at that moment and
\* nothing in the code locks a row between the SELECT and the UPDATE of one
\* operation: mark_completed(ConcUser) runs statement by statement beside
\* one other writer of the same row.
ConcUser == CHOOSE u \in Users : \A v \in Users : u <= v

ConcOps == {"mark_completed", "sweep", "reset", "set_status", "add_member"}

\* tables of the second day: no row, a new row, a row completed yesterday
\* (as the daily reset and as a morning photo leave it), a row completed today
ConcTables ==
  { <<>>,
    (ConcUser :> NewRow("ann")),
    (ConcUser :> [username |-> "ann", status |-> "Pending", target_count |-> 1,
                  points |-> 10, streak |-> 1, lcd |-> 1]),
    (ConcUser :> [username |-> "ann", status |-> "Planned", target_count |-> 1,
                  points |-> 10, streak |-> 1, lcd |-> 1]),
    (ConcUser :> [username |-> "ann", status |-> "Completed", target_count |-> 2,
                  points |-> 25, streak |-> 2, lcd |-> 2]) }

NoRead == [found |-> FALSE]

ReadRow(tbl, u) == IF u \in DOMAIN tbl THEN [found |-> TRUE, row |-> tbl[u]] ELSE NoRead

InitConc ==
  /\ members \in ConcTables
  /\ cstart = members
  /\ cops \in {<<"mark_completed", o>> : o \in ConcOps}
  /\ cpc = <<"start", "start">>
  /\ cread = <<NoRead, NoRead>>
  /\ today = 2
  /\ now = nightly_minute
  /\ fired = FALSE
  /\ jobpc = "idle"
  /\ ev = Event("init", 0, "", 0, FALSE, FALSE, FALSE)
  /\ ret = NoRet
  /\ nev = 0
  /\ dayPts = [u \in Users |-> 0]
  /\ dayTc = [u \in Users |-> 0]
  /\ dayCalls = [u \in Users |-> 0]
  /\ doneDays = [u \in Users |-> {}]
  /\ scen = [u \in Users |-> 0]
  /\ sweepOld = <<>>

ConcFrame ==
  UNCHANGED <<today, now, fired, jobpc, ev, ret, nev, dayPts, dayTc, dayCalls, doneDays, scen,
              sweepOld, cops, cstart>>

\* mark_completed: SELECT points, streak, last_completed_date
mc_select(p) ==
  /\ cops[p] = "mark_completed" /\ cpc[p] = "start"
  /\ cread' = [cread EXCEPT ![p] = ReadRow(members, ConcUser)]
  /\ cpc' = [cpc EXCEPT ![p] = "selected"]
  /\ UNCHANGED members
  /\ ConcFrame

\* mark_completed: the INSERT or UPDATE its SELECT leads to, and the commit
mc_write(p) ==
  /\ cops[p] = "mark_completed" /\ cpc[p] = "selected"
  /\ members' =
       IF ~cread[p].found
         THEN \* INSERT ... ON CONFLICT (user_id) DO NOTHING
              IF ConcUser \in DOMAIN members THEN members
              ELSE (ConcUser :> CompletedRow(today)) @@ members
         ELSE IF ConcUser \notin DOMAIN members THEN members
         ELSE IF cread[p].row.lcd = today
           THEN [members EXCEPT ![ConcUser].status = "Completed"]
           ELSE [members EXCEPT ![ConcUser] = AwardUpdate(members[ConcUser], cread[p].row, today)]
  /\ cpc' = [cpc EXCEPT ![p] = "done"]
  /\ UNCHANGED cread
  /\ ConcFrame

\* the sweep: SELECT user_id, username, submission_status, points FROM members
sweep_select(p) ==
  /\ cops[p] = "sweep" /\ cpc[p] = "start"
  /\ cread' = [cread EXCEPT ![p] = ReadRow(members, ConcUser)]
  /\ cpc' = [cpc EXCEPT ![p] = IF ConcUser \in DOMAIN members THEN "selected" ELSE "done"]
  /\ UNCHANGED members
  /\ ConcFrame

\* the sweep: SELECT last_completed_date of the row, and the decision on it
sweep_check(p) ==
  /\ cops[p] = "sweep" /\ cpc[p] = "selected"
  /\ LET ld == ReadRow(members, ConcUser)
         last_completed_date == IF ld.found THEN ld.row.lcd ELSE NullDate
     IN cpc' = [cpc EXCEPT ![p] = IF last_completed_date = today THEN "done" ELSE "missed"]
  /\ UNCHANGED <<members, cread>>
  /\ ConcFrame

\* the sweep: the UPDATE of the row with the points of the first SELECT
sweep_update(p) ==
  /\ cops[p] = "sweep" /\ cpc[p] = "missed"
  /\ members' = IF ConcUser \in DOMAIN members
                  THEN [members EXCEPT ![ConcUser] =
                          MissedUpdate(members[ConcUser], cread[p].row.points)]
                  ELSE members
  /\ cpc' = [cpc EXCEPT ![p] = "done"]
  /\ UNCHANGED cread
  /\ ConcFrame

\* the writers that are one statement
ConcAtomic(op, tbl) ==
  IF op = "reset" THEN ResetTable(tbl)
  ELSE IF op = "set_status" THEN update_submission_status(tbl, ConcUser, "Planned")
  ELSE add_member(tbl, ConcUser, "anna")

one_statement(p) ==
  /\ cops[p] \in {"reset", "set_status", "add_member"} /\ cpc[p] = "start"
  /\ members' = ConcAtomic(cops[p], members)
  /\ cpc' = [cpc EXCEPT ![p] = "done"]
  /\ UNCHANGED cread
  /\ ConcFrame

NextConc ==
  \/ \E p \in {1, 2} : mc_select(p)
  \/ \E p \in {1, 2} : mc_write(p)
  \/ \E p \in {1, 2} : sweep_select(p)
  \/ \E p \in {1, 2} : sweep_check(p)
  \/ \E p \in {1, 2} : sweep_update(p)
  \/ \E p \in {1, 2} : one_statement(p)

SpecConc == InitConc /\ [][NextConc]_vars

\* the last event ran mark_completed(u) to its commit: a done-command of u,
\* or a group photo of u in the night window whose caption matches
AwardCall(u) ==
  /\ ev.uid = u
  /\ ev.ok2
  /\ \/ ev.op = "done"
     \/ ev.op = "photo" /\ ev.group /\ is_night(now) /\ CaptionMatches(ev.cap)

\* ------------------------------------------------------------------- C1
\* C1: in every reachable state every member row has points >= 0.
C1_PointsNonNegative == \A u \in DOMAIN members : members[u].points >= 0

\* the sweep has floored a deduction at 0 for a member without points
C1_Witness ==
  /\ ev.op = "sweep"
  /\ \E u \in DOMAIN members : members[u].status = "Missed" /\ members[u].points = 0

\* ------------------------------------------------------------------- C2
\* C2: two mark_completed calls for the same member in succession on one
\* day: the second leaves points, streak, target_count and
\* last_completed_date as the first left them, and the status is Completed
\* after each of the two calls.
C2_AwardIdempotent ==
  [][\A u \in Users :
       (AwardCall(u) /\ AwardCall(u)') =>
         /\ members[u].status = "Completed"
         /\ members'[u].status = "Completed"
         /\ members'[u].points = members[u].points
         /\ members'[u].streak = members[u].streak
         /\ members'[u].target_count = members[u].target_count
         /\ members'[u].lcd = members[u].lcd]_vars

\* the only two events of the run are two mark_completed calls for one member
C2_Witness ==
  \E u \in Users : AwardCall(u) /\ dayCalls[u] = 2 /\ nev = 2

\* ------------------------------------------------------------------- C3
\* C3: mark_completed on an existing member whose last_completed_date is
\* yesterday adds 1 to streak and 15 to points; with last_completed_date
\* NULL or before yesterday it sets streak to 1 and adds 10 to points; in
\* both cases target_count grows by 1, last_completed_date becomes today
\* and the status becomes Completed.
C3_StreakContinuity ==
  [][\A u \in DOMAIN members :
       (AwardCall(u)' /\ members[u].lcd # today) =>
         /\ (members[u].lcd # NullDate /\ members[u].lcd = today - 1) =>
              /\ members'[u].streak = members[u].streak + 1
              /\ members'[u].points = members[u].points + 15
         /\ (members[u].lcd = NullDate \/ members[u].lcd < today - 1) =>
              /\ members'[u].streak = 1
              /\ members'[u].points = members[u].points + 10
         /\ members'[u].target_count = members[u].target_count + 1
         /\ members'[u].lcd = today
         /\ members'[u].status = "Completed"]_vars

\* the scenario of the consecutive day: 10 points and streak 1 from
\* yesterday, 25 points and streak 2 after today's done-command
C3_Witness ==
  \E u \in DOMAIN members :
    /\ AwardCall(u) /\ ev.op = "done"
    /\ doneDays[u] = {today - 1, today}
    /\ members[u].points = 25 /\ members[u].streak = 2

\* ------------------------------------------------------------------- C4
\* the members a sweep of today deducts from
NotCompletedToday(tbl, d) == {u \in DOMAIN tbl : tbl[u].lcd # d}

RECURSIVE IsSortedDesc(_)
IsSortedDesc(rows) ==
  \/ Len(rows) <= 1
  \/ /\ \/ rows[1].points > rows[2].points
        \/ rows[1].points = rows[2].points /\ rows[1].streak >= rows[2].streak
     /\ IsSortedDesc(Tail(rows))

\* C5: the list get_all_members returns is sorted by points descending,
\* then streak descending, and is the same list for every order in which
\* the store hands back the rows of the same table.
C5_ListAllDeterministic ==
  (ev.op \in {"status", "leaderboard"} /\ ev.ok1) =>
    /\ IsSortedDesc(ret.list)
    /\ \A ord \in Orders(DOMAIN members) : get_all_members(members, ord) = ret.list

\* ------------------------------------------------------------------- C6
\* an operation run alone, from its first statement to its commit
RunAlone(op, tbl) ==
  IF op = "mark_completed" THEN mark_completed(tbl, ConcUser, today)
  ELSE IF op = "sweep" THEN SweepTable(tbl, today)
  ELSE ConcAtomic(op, tbl)

C7_AwardOncePerDay ==
  \A u \in Users : dayTc[u] <= 1 /\ dayPts[u] <= 15

\* a second mark_completed call of the day, by a night photo, after the
\* award of the day
C7_Witness ==
  \E u \in Users :
    /\ AwardCall(u) /\ ev.op = "photo"
    /\ dayCalls[u] >= 2
    /\ dayTc[u] = 1 /\ dayPts[u] >= 10

\* ------------------------------------------------------------------- C8
\* the number of consecutive days ending at d that are in S
RECURSIVE RunLength(_, _)
RunLength(S, d) == IF d \in S THEN 1 + RunLength(S, d - 1) ELSE 0

\* C8: right after the scoring mark_completed call of a day the streak of
\* the user is the number of consecutive days, ending today, on each of
\* which a completion of the user was recorded.
C8_StreakCountsDays ==
  \A u \in DOMAIN members :
    (AwardCall(u) /\ dayCalls[u] = 1) =>
      members[u].streak = RunLength(doneDays[u], today)

\* ------------------------------------------------------------------- C9
\* C9: a start event of a user without a row creates the row with status
\* Pending and points, streak and target_count 0; the morning photo that
\* follows changes the status to Planned and nothing else; the done-command
\* that follows on the same day leaves status Completed, points 10,
\* streak 1, target_count 1 and last_completed_date today.
C9_NewUserDay ==
  [][\A u \in Users :
       /\ (scen'[u] = 1 /\ ev'.op = "start" /\ ev'.uid = u /\ u \notin DOMAIN members) =>
            /\ u \in DOMAIN members'
            /\ members'[u].status = "Pending"
            /\ members'[u].points = 0
            /\ members'[u].streak = 0
            /\ members'[u].target_count = 0
            /\ members'[u].lcd = NullDate
       /\ (scen[u] = 1 /\ scen'[u] = 2) =>
            /\ members'[u].status = "Planned"
            /\ members'[u].points = members[u].points
            /\ members'[u].streak = members[u].streak
            /\ members'[u].target_count = members[u].target_count
            /\ members'[u].lcd = members[u].lcd
            /\ ev'.uname = members[u].username =>
                 members'[u] = [members[u] EXCEPT !.status = "Planned"]
       /\ (scen[u] = 2 /\ scen'[u] = 3) =>
            /\ members'[u].status = "Completed"
            /\ members'[u].points = 10
            /\ members'[u].streak = 1
            /\ members'[u].target_count = 1
            /\ members'[u].lcd = today]_vars

\* the done-command at the end of the sequence has been handled
C9_Witness ==
  \E u \in DOMAIN members :
    /\ scen[u] = 3 /\ ev.op = "done" /\ ev.uid = u
    /\ members[u].status = "Completed"

\* ------------------------------------------------------------------ C10
\* 05:00-09:00 and 21:00-23:00, in minutes
OutsideBothWindows(t) == ~(300 <= t /\ t <= 540) /\ ~(1260 <= t /\ t <= 1380)

\* C10 as claimed: a group photo outside both windows leaves the table as
\* it was, for known and for unseen senders.
C10_OutsidePhotoNoChange ==
  [][(ev'.op = "photo" /\ ev'.group /\ OutsideBothWindows(now')) =>
       members' = members]_vars

\* C10 as amended: a group photo outside both windows only ensures the row
\* of its sender: an unseen sender gets a row with status Pending and no
\* points, streak, target_count or last_completed_date, a known sender's
\* row changes in username only, and no other row changes.
C10_OutsidePhotoEnsuresOnly ==
  [][(ev'.op = "photo" /\ ev'.group /\ ev'.ok1 /\ OutsideBothWindows(now')) =>
       LET u == ev'.uid
       IN /\ DOMAIN members' = DOMAIN members \cup {u}
          /\ \A v \in DOMAIN members : v # u => members'[v] = members[v]
          /\ u \in DOMAIN members =>
               members'[u] = [members[u] EXCEPT !.username = ev'.uname]
          /\ u \notin DOMAIN members =>
               members'[u] = [username |-> ev'.uname, status |-> "Pending",
                              target_count |-> 0, points |-> 0, streak |-> 0,
                              lcd |-> NullDate]]_vars

\* a photo outside both windows from a member with points, under a new name
C10_Witness ==
  /\ ev.op = "photo" /\ ev.group /\ ev.ok1 /\ OutsideBothWindows(now)
  /\ ev.uid \in DOMAIN members
  /\ members[ev.uid].points = 10 /\ members[ev.uid].status = "Completed"
  /\ members[ev.uid].username = "anna" /\ ev.uname = "anna"
  /\ nev = 2

\* ------------------------------------------------------------------ C11
\* C11: in the nightly process the sweep is committed before the leaderboard
\* reads the table: the member list the leaderboard is built from shows every
\* member who had not completed the day's target at the sweep, and from whom
\* no chat event came between the sweep and the leaderboard, with status
\* Missed, streak 0 and points max(0, points before the sweep - 5).
C11_LeaderboardSeesSweep ==
  [][ev'.op = "leaderboard" /\ ev'.ok1 =>
       \A u \in DOMAIN sweepOld :
         \E i \in 1..Len(ret'.list) :
           /\ ret'.list[i].user_id = u
           /\ ret'.list[i].status = "Missed"
           /\ ret'.list[i].streak = 0
           /\ ret'.list[i].points = IF sweepOld[u] >= 5 THEN sweepOld[u] - 5 ELSE 0]_vars

\* a leaderboard list with a member the sweep took from 10 points to 5, next
\* to a member who completed the day
C11_Witness ==
  /\ ev.op = "leaderboard"
  /\ ev.ok1
  /\ \E i, j \in 1..Len(ret.list) :
       /\ ret.list[i].status = "Missed"
       /\ ret.list[i].points = 5
       /\ ret.list[i].streak = 0
       /\ ret.list[j].status = "Completed"
       /\ ret.list[j].lcd = today

\* ------------------------------------------------------------------ C12
\* C12: the done-command runs ensure and then awardCompletion for its sender
\* at every time of day and in every chat: with the store available the
\* sender has a row afterwards, under the name of the event, with status
\* Completed and last_completed_date today.
C12_DoneAlwaysAwards ==
  (ev.op = "done" /\ ev.ok1 /\ ev.ok2) =>
    /\ ev.uid \in DOMAIN members
    /\ members[ev.uid].username = ev.uname
    /\ members[ev.uid].status = "Completed"
    /\ members[ev.uid].lcd = today

\* a done-command at 09:01, outside both windows, from a user without a row
C12_Witness ==
  /\ ev.op = "done" /\ ev.ok1 /\ ev.ok2
  /\ now = 541
  /\ members[ev.uid].target_count = 1
  /\ members[ev.uid].status = "Completed"
  /\ nev = 1

\* ------------------------------------------------------------------ C13
\* C13: a group photo at a time t with 05:00 <= t <= 09:00, both ends
\* included, runs ensure and then sets the sender's status to Planned and
\* leaves the sender's points, streak, target_count and last_completed_date
\* as they were (those of a fresh row for a new sender); a group photo one
\* minute outside the bounds does not set Planned.
C13_MorningPhotoPlans ==
  [][(ev'.op = "photo" /\ ev'.group /\ ev'.ok1 /\ ev'.ok2) =>
       LET u == ev'.uid
           before == IF u \in DOMAIN members THEN members[u]
                     ELSE [username |-> ev'.uname, status |-> "Pending", target_count |-> 0,
                           points |-> 0, streak |-> 0, lcd |-> 0]
       IN /\ (300 <= now' /\ now' <= 540) =>
               /\ u \in DOMAIN members'
               /\ members'[u] = [before EXCEPT !.username = ev'.uname, !.status = "Planned"]
          /\ now' \in {299, 541} =>
               /\ u \in DOMAIN members'
               /\ members'[u].status = before.status]_vars

\* a photo at 09:00 sharp from a member who completed the day before
C13_Witness ==
  /\ ev.op = "photo" /\ ev.group /\ ev.ok1 /\ ev.ok2
  /\ now = 540
  /\ members[ev.uid].status = "Planned"
  /\ members[ev.uid].points = 10
  /\ members[ev.uid].lcd = today - 1

\* ------------------------------------------------------------------ C14
\* C14: for a group photo at a time t with 21:00 <= t <= 23:00,
\* awardCompletion runs for the sender if and only if the caption, in lower
\* case, contains "today target completed", "today target complete" or
\* "target completed": the captions "TODAY TARGET COMPLETE" (1) and
\* "my target completed" (2) award, and a photo without caption (0) or with
\* the caption "target complete" (3) leaves the sender's status, points,
\* streak, target_count and last_completed_date as they were.
C14_NightPhotoCaption ==
  [][(ev'.op = "photo" /\ ev'.group /\ ev'.ok1 /\ ev'.ok2
        /\ 1260 <= now' /\ now' <= 1380) =>
       LET u == ev'.uid
           before == IF u \in DOMAIN members THEN members[u]
                     ELSE [username |-> ev'.uname, status |-> "Pending", target_count |-> 0,
                           points |-> 0, streak |-> 0, lcd |-> 0]
       IN /\ u \in DOMAIN members'
          /\ ev'.cap \in {1, 2} =>
               /\ members'[u].status = "Completed"
               /\ members'[u].lcd = today
               /\ before.lcd # today => members'[u].target_count = before.target_count + 1
          /\ ev'.cap \in {0, 3} =>
               members'[u] = [before EXCEPT !.username = ev'.uname]]_vars

\* a night photo with the caption "target complete" from a member whose
\* status stays Planned
C14_Witness ==
  /\ ev.op = "photo" /\ ev.group /\ ev.ok1 /\ ev.ok2
  /\ now = 1380
  /\ ev.cap = 3
  /\ members[ev.uid].status = "Planned"
  /\ members[ev.uid].lcd # today

\* ------------------------------------------------------------------ C15
\* C15: ensure inserts or touches: for a user_id without a row it creates
\* the one row of that user with status Pending, no points, streak or
\* completion; for a user_id with a row it changes the username (and
\* last_updated) only; the rows of the other users stay as they are, so no
\* call creates a second row or resets progress.
C15_EnsureInsertOrTouch ==
  [][(ev'.op = "start" /\ ev'.ok1) =>
       LET u == ev'.uid
       IN /\ DOMAIN members' = DOMAIN members \cup {u}
          /\ \A v \in DOMAIN members \ {u} : members'[v] = members[v]
          /\ IF u \in DOMAIN members
               THEN members'[u] = [members[u] EXCEPT !.username = ev'.uname]
               ELSE members'[u] = [username |-> ev'.uname, status |-> "Pending",
                                   target_count |-> 0, points |-> 0, streak |-> 0,
                                   lcd |-> 0]]_vars

\* a start event under a new name from a member who has completed today
C15_Witness ==
  /\ ev.op = "start" /\ ev.ok1
  /\ ev.uname = "anna"
  /\ members[ev.uid].status = "Completed"
  /\ members[ev.uid].points = 10
  /\ members[ev.uid].lcd = today

\* ------------------------------------------------------------------ C16
\* C16: the daily reset sets the status of every row to Pending and leaves
\* points, streak, target_count, last_completed_date and the set of rows as
\* they were; a second reset right after it would change nothing.
C16_ResetOnlyStatus ==
  [][(ev'.op = "reset" /\ ev'.ok1) =>
       /\ DOMAIN members' = DOMAIN members
       /\ \A u \in DOMAIN members :
            members'[u] = [members[u] EXCEPT !.status = "Pending"]
       /\ ResetTable(members') = members']_vars

\* a reset over a member who completed two days in a row and one who missed
C16_Witness ==
  /\ ev.op = "reset" /\ ev.ok1
  /\ \E u, v \in DOMAIN members :
       /\ members[u].status = "Pending" /\ members[u].streak = 2
       /\ members[u].points = 25 /\ members[u].lcd = today - 1
       /\ members[v].status = "Pending" /\ members[v].streak = 0
       /\ members[v].target_count = 0

\* ------------------------------------------------------------------ C20
\* C20: in every reachable state every member's streak is at most the
\* member's target_count.
C20_StreakAtMostCount ==
  \A u \in DOMAIN members : members[u].streak <= members[u].target_count

\* a member with two completions in a row beside a member whose streak the
\* sweep has set back
C20_Witness ==
  \E u, v \in DOMAIN members :
    /\ members[u].streak = 2 /\ members[u].target_count = 2
    /\ members[v].streak = 0 /\ members[v].target_count = 1

\* ------------------------------------------------------------------ C17
\* C17: the sweep is best-effort: when the update of one member's row fails,
\* every other member who has not completed today is still swept (status
\* Missed, streak 0, points max(0, points - 5)) and is in the returned list.
C17_SweepBestEffort ==
  [][(ev'.op = "sweep" /\ ev'.uid \in DOMAIN members /\ members[ev'.uid].lcd # today) =>
       \A u \in DOMAIN members \ {ev'.uid} :
         members[u].lcd # today =>
           /\ members'[u].status = "Missed"
           /\ members'[u].streak = 0
           /\ members'[u].points = IF members[u].points >= 5 THEN members[u].points - 5 ELSE 0
           /\ \E i \in 1..Len(ret'.list) : ret'.list[i] = members[u].username]_vars

\* ------------------------------------------------------------------ C18
\* C18: when the store cannot be reached or a store call fails, the Member
\* Store operation reports a failure to its caller that differs from what it
\* reports on success, and leaves every row as it was: a failed ensure,
\* setStatus or awardCompletion returns False and the table is the one the
\* calls before it left; a failed sweep changes no row and its result is
\* not the result of a successful sweep; a failed reset changes no row.
C18_FailureReportedNoChange ==
  [][/\ (ev'.op = "start" /\ ~ev'.ok1) =>
          /\ members' = members
          /\ ret'.list = <<FALSE>>
     /\ (ev'.op = "done" \/ (ev'.op = "photo" /\ ev'.group)) =>
          LET u == ev'.uid
          IN /\ ~ev'.ok1 => ret'.list[1] = FALSE
             /\ (Len(ret'.list) = 2 /\ ~ev'.ok2) => ret'.list[2] = FALSE
             /\ (~ev'.ok1 /\ (Len(ret'.list) = 2 => ~ev'.ok2)) => members' = members
             /\ (ev'.ok1 /\ Len(ret'.list) = 2 /\ ~ev'.ok2) =>
                  /\ DOMAIN members' = DOMAIN members \cup {u}
                  /\ \A v \in DOMAIN members \ {u} : members'[v] = members[v]
                  /\ u \in DOMAIN members =>
                       members'[u] = [members[u] EXCEPT !.username = ev'.uname]
                  /\ u \notin DOMAIN members => members'[u].target_count = 0
     /\ (ev'.op = "sweep" /\ ~ev'.ok1) =>
          /\ members' = members
          /\ LET none == apply_missed_deductions_and_reset(<<>>, today, <<>>, 0)
             IN ret' # [list |-> none.missed, n |-> none.updated]
     /\ (ev'.op = "reset" /\ ~ev'.ok1) => members' = members]_vars

\* ------------------------------------------------------------------ C19
\* C19: a send_message that fails in the nightly process or in the daily
\* reset does not undo the store mutation made before it: after a sweep
\* whose missed notice is not delivered every member who had not completed
\* today is Missed with streak 0 and the deduction, after a reset whose
\* notice is not delivered every status is Pending, and a leaderboard that
\* is not delivered changes no row.
C19_SendFailureKeepsCommit ==
  [][/\ (ev'.op = "sweep" /\ ev'.ok1 /\ ~ev'.ok2) =>
          /\ DOMAIN members' = DOMAIN members
          /\ \A u \in DOMAIN members :
               IF members[u].lcd = today
                 THEN members'[u] = members[u]
                 ELSE /\ members'[u].status = "Missed"
                      /\ members'[u].streak = 0
                      /\ members'[u].points =
                           IF members[u].points >= 5 THEN members[u].points - 5 ELSE 0
     /\ (ev'.op = "reset" /\ ev'.ok1 /\ ~ev'.ok2) =>
          /\ DOMAIN members' = DOMAIN members
          /\ \A u \in DOMAIN members : members'[u].status = "Pending"
     /\ (ev'.op = "leaderboard" /\ ~ev'.ok2) => members' = members]_vars

\* a reset whose notice is not delivered, over a member who had completed
C19_Witness ==
  /\ ev.op = "reset" /\ ev.ok1 /\ ~ev.ok2
  /\ \E u \in DOMAIN members :
       /\ members[u].status = "Pending"
       /\ members[u].lcd = today
       /\ members[u].points = 10

\* ------------------------------------------------------------------ C21
\* C21: once a member has completed today's target (last_completed_date
\* today, status Completed), no chat event of that day (start, done-command,
\* photo at any time with any caption) takes the member's status away from
\* Completed, so the list of the evening reminder holds no member whose
\* last_completed_date is today.
C21_CompletedStays ==
  [][/\ \A u \in DOMAIN members :
          (/\ ev'.op \in {"start", "done", "photo"}
           /\ ev'.uid = u
           /\ members[u].lcd = today
           /\ members[u].status = "Completed") =>
            members'[u].status = "Completed"
     /\ (ev'.op = "reminder" /\ ev'.ok1) =>
          \A i \in 1..Len(ret'.list) : ret'.list[i].lcd # today]_vars

\* ------------------------------------------------------------------ C22
\* the nightly sweep of today has run and has penalised u: the status Missed
\* is written by the sweep alone and the reset at midnight has cleared
\* yesterday's
SweptToday(u) ==
  /\ now = nightly_minute
  /\ fired
  /\ u \in DOMAIN members
  /\ members[u].status = "Missed"

\* C22: for each member and each day the miss penalty and the completion
\* award exclude each other: once the nightly sweep of the day has penalised
\* a member, no later event of that day gives the member completion points
\* for the day, and the sweep leaves the row of a member already awarded for
\* the day as it is.
C22_PenaltyAwardExclusive ==
  [][\A u \in DOMAIN members :
       /\ (SweptToday(u) /\ today' = today) =>
            ~(members'[u].lcd = today /\ members'[u].points > members[u].points)
       /\ (ev'.op = "sweep" /\ members[u].lcd = today) =>
            members'[u] = members[u]]_vars

====
